---- MODULE Spec2Model ----
(***************************************************************************)
(* Patient Management System (src/main.py): a FastAPI service over one     *)
(* JSON file, patients.json.                                               *)
(*                                                                         *)
(* Representation.                                                         *)
(*  - The JSON document (a Python dict, which keeps insertion order) is a  *)
(*    sequence of entries [id |-> key, info |-> value].                    *)
(*  - A Python dict of keyword arguments that may hold None is a pair      *)
(*    (val, null): val is a function from the keys with a value to that    *)
(*    value, null is the set of keys mapped to None.                       *)
(*  - height is in centimetres, weight in hundredths of a kilogram and bmi *)
(*    in hundredths, so 18.5 is 1850 and weight/height**2 in kg/m^2 times  *)
(*    100 is 10000*weight/(height*height).                                 *)
(***************************************************************************)
EXTENDS Integers, Sequences, FiniteSets, TLC

VARIABLES data, request, response, before, pc, job, clock

vars == <<data, request, response, before, pc, job, clock>>

\* ------------------------------------------------------------------ bounds
NumIds == 2

MaxSupplied == 2

IdNames == <<"P001", "P002", "P003", "P004">>

Ids == {IdNames[i] : i \in 1..NumIds}

Workers == {"w1", "w2"}

\* ------------------------------------------------------- the Patient model
Fields == {"name", "city", "age", "gender", "height", "weight"}

PatientFields == Fields \cup {"id"}

Genders == {"Male", "Female", "Other"}

NoArgs == [k \in {} |-> 0]

FieldOk_age0(k, v) ==
  CASE k = "age" -> v >= 0 /\ v < 120
    [] k = "gender" -> v \in Genders
    [] k = "height" -> v > 0
    [] k = "weight" -> v > 0
    [] OTHER -> TRUE

\* Field(gt=0, lt=120) on age, Literal on gender, Field(gt=0) on height and
\* weight; name, city and id are plain str with no length constraint.
FieldOk(k, v) ==
  CASE k = "age" -> v > 0 /\ v < 120
    [] k = "gender" -> v \in Genders
    [] k = "height" -> v > 0
    [] k = "weight" -> v > 0
    [] OTHER -> TRUE

\* Patient(**kwargs): every field is required (Field(...)), None is not
\* accepted by any of them, extra keys (bmi, verdict) are ignored.
PatientValid(val, null) ==
  /\ PatientFields \subseteq (DOMAIN val \cup null)
  /\ null \cap PatientFields = {}
  /\ \A k \in PatientFields : FieldOk(k, val[k])

\* PatientUpdate(**body): every field is Optional with default None; a value
\* that is present and not None meets the same constraint as in Patient.
PatientUpdateValid(val, null) ==
  /\ (DOMAIN val \cup null) \subseteq Fields
  /\ \A k \in DOMAIN val : FieldOk(k, val[k])

\* The fields of a constructed Patient.
Patient(val) == [k \in PatientFields |-> val[k]]

\* Python's round(x, 2) on the exact quotient n/d, in hundredths: to the
\* nearest, an exact half to the even neighbour.
RoundHalfEven(n, d) ==
  LET q == n \div d
      r == n % d
  IN  IF 2 * r < d THEN q
      ELSE IF 2 * r > d THEN q + 1
      ELSE IF q % 2 = 0 THEN q ELSE q + 1

bmi(self) == RoundHalfEven(10000 * self.weight, self.height * self.height)

verdict_le(self) ==
  IF bmi(self) <= 1850 THEN "Underweight"
  ELSE IF 1850 <= bmi(self) /\ bmi(self) < 2500 THEN "Normal weight"
  ELSE IF 2500 <= bmi(self) /\ bmi(self) < 3000 THEN "Overweight"
  ELSE "Obese"

verdict(self) ==
  IF bmi(self) < 1850 THEN "Underweight"
  ELSE IF 1850 <= bmi(self) /\ bmi(self) < 2500 THEN "Normal weight"
  ELSE IF 2500 <= bmi(self) /\ bmi(self) < 3000 THEN "Overweight"
  ELSE "Obese"

\* model_dump(): the fields and the two computed fields.
model_dump(self) ==
  [k \in PatientFields \cup {"bmi", "verdict"} |->
     IF k = "bmi" THEN bmi(self)
     ELSE IF k = "verdict" THEN verdict(self)
     ELSE self[k]]

model_dump_keep_id(self, exclude) == model_dump(self)

model_dump_exclude(self, exclude) ==
  [k \in (DOMAIN model_dump(self)) \ exclude |-> model_dump(self)[k]]

\* ------------------------------------------------------- the record store
Keys(d) == {d[i].id : i \in 1..Len(d)}

IndexOf(d, pid) == CHOOSE i \in 1..Len(d) : d[i].id = pid

Get(d, pid) == d[IndexOf(d, pid)].info

\* d[pid] = info: an existing key keeps its place, a new key goes last.
SetItem(d, pid, info) ==
  IF pid \in Keys(d)
  THEN [d EXCEPT ![IndexOf(d, pid)] = [id |-> pid, info |-> info]]
  ELSE Append(d, [id |-> pid, info |-> info])

\* del d[pid]
DelItem(d, pid) ==
  LET i == IndexOf(d, pid)
  IN  SubSeq(d, 1, i - 1) \o SubSeq(d, i + 1, Len(d))

\* json.load of the file: the document as it was last written.
load_data(file) == file

save_data_merge(d, file) ==
  LET RECURSIVE Merge(_, _)
      Merge(acc, i) == IF i > Len(d) THEN acc
                       ELSE Merge(SetItem(acc, d[i].id, d[i].info), i + 1)
  IN  Merge(file, 1)

\* json.dump in mode 'w': the document replaces the whole file.
save_data(d, file) == d

\* ------------------------------------------------------- request handlers
\* What a handler does to the loaded document d: whether it reaches
\* save_data, the document it would save, and the answer to the caller.
Answer(save, d, status, content) ==
  [save |-> save, data |-> d, status |-> status, content |-> content]

\* GET /view
view(d) == Answer(FALSE, d, 200, d)

\* GET /patient/{patient_id}
view_patient(d, patient_id) ==
  IF patient_id \in Keys(d)
  THEN Answer(FALSE, d, 200, Get(d, patient_id))
  ELSE Answer(FALSE, d, 404, "Patient not found")

Reverse(s) == [i \in 1..Len(s) |-> s[Len(s) + 1 - i]]

\* x goes after every element whose key is not greater than its own.
RECURSIVE InsertStable(_, _, _)
InsertStable(s, x, key) ==
  IF s = <<>> THEN <<x>>
  ELSE IF x[key] < Head(s)[key] THEN <<x>> \o s
  ELSE <<Head(s)>> \o InsertStable(Tail(s), x, key)

RECURSIVE StableSort(_, _)
StableSort(s, key) ==
  IF s = <<>> THEN <<>>
  ELSE InsertStable(StableSort(SubSeq(s, 1, Len(s) - 1), key), s[Len(s)], key)

sorted_reversed(s, key, reverse) ==
  IF reverse THEN Reverse(StableSort(s, key)) ELSE StableSort(s, key)

\* sorted(s, key=..., reverse=...): list.sort is stable, and with reverse it
\* reverses the list, sorts it ascending and reverses the result, so equal
\* keys keep their original order in both directions.
sorted(s, key, reverse) ==
  IF reverse THEN Reverse(StableSort(Reverse(s), key)) ELSE StableSort(s, key)

\* {**info, 'id': pid}
WithId(info, pid) ==
  [k \in DOMAIN info \cup {"id"} |-> IF k = "id" THEN pid ELSE info[k]]

\* GET /sort
sort_patients(d, sort_by, order) ==
  IF sort_by \notin {"height", "weight", "bmi"}
  THEN Answer(FALSE, d, 400, "Invalid field")
  ELSE IF order \notin {"asc", "desc"}
  THEN Answer(FALSE, d, 400, "Invalid order")
  ELSE IF \E i \in 1..Len(d) : ~PatientValid(WithId(d[i].info, d[i].id), {})
  THEN Answer(FALSE, d, 500, "ValidationError")
  ELSE LET enriched_data ==
             [i \in 1..Len(d) |-> model_dump(Patient(WithId(d[i].info, d[i].id)))]
       IN  Answer(FALSE, d, 200, sorted(enriched_data, sort_by, order = "desc"))

create_patient_overwrite(d, patient) ==
  Answer(TRUE, SetItem(d, patient.id, model_dump_exclude(patient, {"id"})),
         201, "Patient created successfully")

\* POST /create, after the body was validated as a Patient
create_patient(d, patient) ==
  IF patient.id \in Keys(d)
  THEN Answer(FALSE, d, 400, "Patient with this ID already exists")
  ELSE Answer(TRUE, SetItem(d, patient.id, model_dump_exclude(patient, {"id"})),
              201, "Patient created successfully")

MergedVal_reset(existing, patient_id, val, null) ==
  [k \in ((DOMAIN existing \cup DOMAIN val) \ null) \cup {"id"} |->
     IF k = "id" THEN patient_id
     ELSE IF k \in DOMAIN val THEN val[k]
     ELSE IF k = "name" THEN "" ELSE existing[k]]

\* existing_patient_info after the loop over model_dump(exclude_unset=True)
\* and after existing_patient_info['id'] = patient_id: the keys with a value.
MergedVal(existing, patient_id, val, null) ==
  [k \in ((DOMAIN existing \cup DOMAIN val) \ null) \cup {"id"} |->
     IF k = "id" THEN patient_id
     ELSE IF k \in DOMAIN val THEN val[k]
     ELSE existing[k]]

\* PUT /edit/{patient_id}, after the body was validated as a PatientUpdate
\* whose explicitly supplied keys are DOMAIN val (a value) and null (None).
\* Patient(**existing_patient_info) raises pydantic's ValidationError inside
\* the handler, which no exception handler catches: the answer is 500.
update_patient(d, patient_id, val, null) ==
  IF patient_id \notin Keys(d)
  THEN Answer(FALSE, d, 404, "Patient not found")
  ELSE LET existing_patient_info ==
             MergedVal(Get(d, patient_id), patient_id, val, null)
       IN  IF ~PatientValid(existing_patient_info, null)
           THEN Answer(FALSE, d, 500, "Internal Server Error")
           ELSE Answer(TRUE,
                       SetItem(d, patient_id,
                               model_dump_exclude(Patient(existing_patient_info),
                                                  {"id"})),
                       200, "Patient updated successfully")

delete_patient_first(d, patient_id) ==
  IF patient_id \notin Keys(d)
  THEN Answer(FALSE, d, 404, "Patient not found")
  ELSE Answer(TRUE, Tail(d), 200, "Patient deleted successfully")

\* DELETE /delete/{patient_id}
delete_patient(d, patient_id) ==
  IF patient_id \notin Keys(d)
  THEN Answer(FALSE, d, 404, "Patient not found")
  ELSE Answer(TRUE, DelItem(d, patient_id), 200, "Patient deleted successfully")

\* ------------------------------------------------------------ request inputs
\* The values a request may carry for a field, by profile: "small" for the
\* requests that run against every store, "raw" the same with values the
\* request validation rejects, "wide" for the requests that probe the Patient
\* model (the constraint boundaries and the bmi thresholds).
Dom(profile, k) ==
  CASE profile = "wide" /\ k = "name" -> {"", "Ann"}
    [] profile = "wide" /\ k = "city" -> {"", "Goa"}
    [] profile = "wide" /\ k = "age" -> {0, 1, 119, 120}
    [] profile = "wide" /\ k = "gender" -> {"Male", "Female", "Other", "Unknown"}
    [] profile = "wide" /\ k = "height" -> {0, 100, 160, 200}
    [] profile = "wide" /\ k = "weight" ->
         {0, 50, 150, 1849, 1850, 2499, 2500, 2999, 3000, 7000}
    [] profile = "raw" /\ k = "height" -> {0, 100, 200}
    [] k = "name" -> {"Bo"}
    [] k = "city" -> {"Goa"}
    [] k = "age" -> {35}
    [] k = "gender" -> {"Male"}
    [] k = "height" -> {100, 200}
    [] k = "weight" -> {1500, 6000}

\* Every assignment of a value of Dom(profile, k) to each key k of S.
RECURSIVE Assign(_, _)
Assign(S, profile) ==
  IF S = {} THEN {NoArgs}
  ELSE LET k == CHOOSE x \in S : TRUE
       IN  {f @@ (k :> v) : f \in Assign(S \ {k}, profile), v \in Dom(profile, k)}

\* The JSON bodies of POST /create: all seven keys with a value.
Bodies(profile) ==
  {WithId(f, pid) : f \in Assign(Fields, profile), pid \in Ids}

\* The JSON bodies of PUT /edit: at most MaxSupplied keys, each null or a value.
Patches(profile) ==
  UNION {UNION {{[val |-> f, null |-> T \ S] : f \in Assign(S, profile)} :
                S \in SUBSET T} :
         T \in {U \in SUBSET Fields : Cardinality(U) <= MaxSupplied}}

\* ------------------------------------------------------------------ state
\* data     the contents of patients.json
\* request  the request being answered (NoRequest between two requests),
\* response the answer it gets,
\* before   the contents of patients.json when that request arrived
\* pc       where each thread of the thread pool is in its request (SpecRace)
\* job      that request, the document it loaded, what its handler decided,
\*          and when it loaded and saved
\* clock    counts the loads and saves
NoRequest ==
  [op |-> "none", id |-> "", val |-> NoArgs, null |-> {}, sort_by |-> "", order |-> ""]

Req(op, pid, val, null, sort_by, order) ==
  [op |-> op, id |-> pid, val |-> val, null |-> null, sort_by |-> sort_by,
   order |-> order]

NoResponse == [status |-> 0, content |-> ""]

NoJob ==
  [req |-> NoRequest, loaded |-> <<>>, ans |-> Answer(FALSE, <<>>, 0, ""),
   loadAt |-> 0, saveAt |-> 0]

\* A patients.json as shipped: records of the six fields only.
Seed ==
  <<[id |-> "P001",
     info |-> [name |-> "Ann", city |-> "Goa", age |-> 35, gender |-> "Male",
               height |-> 100, weight |-> 1850]]>>

Init ==
  /\ data \in {<<>>, Seed}
  /\ request = NoRequest
  /\ response = NoResponse
  /\ before = data
  /\ pc = [w \in Workers |-> "idle"]
  /\ job = [w \in Workers |-> NoJob]
  /\ clock = 0

\* One request served from start to end with no other request in between:
\* load_data, the handler, and save_data when the handler reaches it.
Serve(req, ans) ==
  /\ request' = req
  /\ before' = data
  /\ response' = [status |-> ans.status, content |-> ans.content]
  /\ data' = IF ans.save THEN save_data(ans.data, data) ELSE data
  /\ UNCHANGED <<pc, job, clock>>

\* A body the request validation rejects: 422, the handler does not run.
Reject(req) ==
  /\ request' = req
  /\ before' = data
  /\ response' = [status |-> 422, content |-> "ValidationError"]
  /\ UNCHANGED <<data, pc, job, clock>>

View ==
  /\ request = NoRequest
  /\ Serve(Req("view", "", NoArgs, {}, "", ""), view(load_data(data)))

ViewPatient ==
  /\ request = NoRequest
  /\ \E pid \in Ids :
    Serve(Req("view_patient", pid, NoArgs, {}, "", ""),
          view_patient(load_data(data), pid))

SortPatients ==
  /\ request = NoRequest
  /\ \E sort_by \in {"height", "weight", "bmi", "age"}, order \in {"asc", "desc", "up"} :
    Serve(Req("sort", "", NoArgs, {}, sort_by, order),
          sort_patients(load_data(data), sort_by, order))

CreatePatient(profile) ==
  /\ request = NoRequest
  /\ \E body \in Bodies(profile) :
    IF PatientValid(body, {})
    THEN Serve(Req("create", body.id, body, {}, "", ""),
               create_patient(load_data(data), Patient(body)))
    ELSE Reject(Req("create", body.id, body, {}, "", ""))

UpdatePatient(profile) ==
  /\ request = NoRequest
  /\ \E pid \in Ids, patch \in Patches(profile) :
    IF PatientUpdateValid(patch.val, patch.null)
    THEN Serve(Req("update", pid, patch.val, patch.null, "", ""),
               update_patient(load_data(data), pid, patch.val, patch.null))
    ELSE Reject(Req("update", pid, patch.val, patch.null, "", ""))

DeletePatient ==
  /\ request = NoRequest
  /\ \E pid \in Ids :
    Serve(Req("delete", pid, NoArgs, {}, "", ""),
          delete_patient(load_data(data), pid))

\* The answer is sent and the server waits for the next request.
Respond ==
  /\ request # NoRequest
  /\ request' = NoRequest
  /\ response' = NoResponse
  /\ before' = data
  /\ UNCHANGED <<data, pc, job, clock>>

Next ==
  \/ View
  \/ ViewPatient
  \/ SortPatients
  \/ CreatePatient("raw")
  \/ UpdatePatient("raw")
  \/ DeletePatient
  \/ Respond

Spec == Init /\ [][Next]_vars

\* The Patient model alone: one POST /create, with a body drawn from the
\* wide profile, against the shipped store.
NextModel == CreatePatient("wide")

SpecModel == Init /\ [][NextModel]_vars

\* ----------------------------------------------------- requests in flight
\* FastAPI runs a def endpoint in a worker thread, so two requests overlap:
\* a write request is a load_data, the handler's work on its own copy, and
\* later a save_data. A handler that raises answers at once and saves nothing.
RacePatches == {p \in Patches("small") : p.null = {} /\ DOMAIN p.val \subseteq {"weight"}}

Begin(w, req, ans) ==
  /\ pc[w] = "idle"
  /\ clock' = clock + 1
  /\ job' = [job EXCEPT ![w] = [req |-> req, loaded |-> load_data(data), ans |-> ans,
                                loadAt |-> clock + 1, saveAt |-> 0]]
  /\ pc' = [pc EXCEPT ![w] = IF ans.save THEN "loaded" ELSE "done"]
  /\ UNCHANGED <<data, request, response, before>>

BeginCreate(w) ==
  \E body \in Bodies("small") :
    /\ PatientValid(body, {})
    /\ Begin(w, Req("create", body.id, body, {}, "", ""),
             create_patient(load_data(data), Patient(body)))

BeginUpdate(w) ==
  \E pid \in Ids, patch \in RacePatches :
    /\ PatientUpdateValid(patch.val, patch.null)
    /\ Begin(w, Req("update", pid, patch.val, patch.null, "", ""),
             update_patient(load_data(data), pid, patch.val, patch.null))

BeginDelete(w) ==
  \E pid \in Ids :
    Begin(w, Req("delete", pid, NoArgs, {}, "", ""),
          delete_patient(load_data(data), pid))

Save(w) ==
  /\ pc[w] = "loaded"
  /\ clock' = clock + 1
  /\ data' = save_data(job[w].ans.data, data)
  /\ job' = [job EXCEPT ![w].saveAt = clock + 1]
  /\ pc' = [pc EXCEPT ![w] = "done"]
  /\ UNCHANGED <<request, response, before>>

NextRace ==
  \E w \in Workers :
    \/ BeginCreate(w)
    \/ BeginUpdate(w)
    \/ BeginDelete(w)
    \/ Save(w)

SpecRace == Init /\ [][NextRace]_vars

\* ------------------------------------------------------------ properties
Abs(x) == IF x < 0 THEN -x ELSE x

\* b is weight/height^2 in kg/m^2 to the nearest hundredth.
IsBmi(b, height, weight) ==
  2 * Abs(b * height * height - 10000 * weight) <= height * height

\* v is the class of b by the half-open thresholds 18.5, 25 and 30.
IsVerdict(v, b) ==
  \/ b < 1850 /\ v = "Underweight"
  \/ 1850 <= b /\ b < 2500 /\ v = "Normal weight"
  \/ 2500 <= b /\ b < 3000 /\ v = "Overweight"
  \/ 3000 <= b /\ v = "Obese"

SameExcept(d, e, pid) ==
  \A k \in (Keys(d) \cup Keys(e)) \ {pid} :
    k \in Keys(d) /\ k \in Keys(e) /\ Get(d, k) = Get(e, k)

\* C1: a create whose body is a valid Patient with an id that is already a
\* key of the store is answered 400 and leaves the store as it was.
C1_DuplicateCreate ==
  (request.op = "create" /\ PatientValid(request.val, request.null)
     /\ request.id \in Keys(before))
    => (response.status = 400 /\ data = before)

C1_Witness ==
  /\ request.op = "create"
  /\ request.id \in Keys(before)
  /\ response.status = 400
  /\ request.val.weight # Get(before, request.id).weight

\* C2: a delete of an id that is not a key is answered 404 and leaves the
\* store as it was; a delete of a key is answered 200 and the store is the
\* previous one without that key, every other key with the same record.
C2_Delete ==
  request.op = "delete" =>
    IF request.id \notin Keys(before)
    THEN response.status = 404 /\ data = before
    ELSE /\ response.status = 200
         /\ Keys(data) = Keys(before) \ {request.id}
         /\ SameExcept(data, before, request.id)

C2_Witness ==
  /\ request.op = "delete"
  /\ response.status = 200
  /\ Len(before) >= 2
  /\ before[Len(before)].id = request.id

\* C3: a successful update sets every supplied field to the supplied value,
\* leaves every other field of the record, every other record and the key
\* set as they were, and the record's bmi and verdict are those of the
\* resulting height and weight.
C3_UpdateFrame ==
  (request.op = "update" /\ response.status = 200) =>
    /\ request.id \in Keys(before)
    /\ Keys(data) = Keys(before)
    /\ SameExcept(data, before, request.id)
    /\ LET old == Get(before, request.id)
           new == Get(data, request.id)
       IN  /\ \A k \in Fields :
                new[k] = IF k \in DOMAIN request.val THEN request.val[k] ELSE old[k]
           /\ IsBmi(new.bmi, new.height, new.weight)
           /\ IsVerdict(new.verdict, new.bmi)

C3_Witness ==
  /\ request.op = "update"
  /\ response.status = 200
  /\ Len(before) >= 2
  /\ DOMAIN request.val = {"weight"}
  /\ Get(before, request.id).weight # request.val.weight
  /\ Get(data, request.id).verdict = "Obese"

\* C4: after a successful create of id p, a view-one of p with no write in
\* between is answered 200 with a record that holds every submitted field
\* with the submitted value, the bmi and verdict of the submitted height and
\* weight, and no id key; a view-one returns the stored record as it is.
C4_CreateThenView ==
  /\ (request.op = "create" /\ response.status = 201) =>
       LET seen == view_patient(load_data(data), request.id)
       IN  /\ request.id \notin Keys(before)
           /\ seen.status = 200
           /\ DOMAIN seen.content = Fields \cup {"bmi", "verdict"}
           /\ \A k \in Fields : seen.content[k] = request.val[k]
           /\ IsBmi(seen.content.bmi, request.val.height, request.val.weight)
           /\ IsVerdict(seen.content.verdict, seen.content.bmi)
  /\ (request.op = "view_patient" /\ request.id \in Keys(before)) =>
       /\ response.status = 200
       /\ response.content = Get(before, request.id)
       /\ data = before

C4_Witness ==
  /\ request.op = "create"
  /\ response.status = 201
  /\ Len(before) = 1
  /\ view_patient(load_data(data), request.id).content.verdict = "Obese"

\* C5 as stated: every value of the persisted store has exactly the six
\* fields name, city, age, gender, height, weight.
C5_SixFieldsOnly ==
  \A i \in 1..Len(data) : DOMAIN data[i].info = Fields

\* C5 as amended: every value of the persisted store holds the six fields
\* and never an id, alone or together with bmi and verdict; a value written
\* by create or update holds bmi and verdict as well.
C5_StoredLayout ==
  /\ \A i \in 1..Len(data) :
       DOMAIN data[i].info \in {Fields, Fields \cup {"bmi", "verdict"}}
  /\ (request.op \in {"create", "update"} /\ response.status \in {200, 201}) =>
       DOMAIN Get(data, request.id) = Fields \cup {"bmi", "verdict"}

C5_Witness ==
  /\ request.op = "create"
  /\ response.status = 201
  /\ Len(data) = 2
  /\ DOMAIN data[1].info = Fields
  /\ DOMAIN data[2].info = Fields \cup {"bmi", "verdict"}

\* C8: a sort by height, weight or bmi in asc or desc order is answered 200
\* with one enriched record per stored patient (the id from the key, the
\* stored fields, bmi and verdict), in non-decreasing order of the sort_by
\* value for asc and non-increasing for desc, records of equal value in the
\* store's order in both directions, and the store is not modified.
C8_Sort ==
  (request.op = "sort" /\ request.sort_by \in {"height", "weight", "bmi"}
     /\ request.order \in {"asc", "desc"}) =>
    LET out == response.content
        key == request.sort_by
    IN  /\ response.status = 200
        /\ data = before
        /\ Len(out) = Len(before)
        /\ {out[i].id : i \in 1..Len(out)} = Keys(before)
        /\ \A i \in 1..Len(out) :
             /\ DOMAIN out[i] = PatientFields \cup {"bmi", "verdict"}
             /\ \A k \in Fields : out[i][k] = Get(before, out[i].id)[k]
             /\ IsBmi(out[i].bmi, out[i].height, out[i].weight)
             /\ IsVerdict(out[i].verdict, out[i].bmi)
        /\ \A i, j \in 1..Len(out) :
             i < j =>
               /\ request.order = "asc" => out[i][key] <= out[j][key]
               /\ request.order = "desc" => out[i][key] >= out[j][key]
               /\ out[i][key] = out[j][key] =>
                    IndexOf(before, out[i].id) < IndexOf(before, out[j].id)

C8_Witness ==
  /\ request.op = "sort"
  /\ request.order = "desc"
  /\ request.sort_by = "bmi"
  /\ response.status = 200
  /\ Len(response.content) = 2
  /\ response.content[1].bmi = response.content[2].bmi
  /\ response.content[1].height # response.content[2].height

\* C9: an update of an existing id whose body the partial-update schema
\* accepts and whose merged record violates a Patient constraint is answered
\* with a 4xx status, and the store is left as it was.
C9_MergedInvalidIs4xx ==
  (request.op = "update" /\ request.id \in Keys(before)
     /\ PatientUpdateValid(request.val, request.null)
     /\ ~PatientValid(MergedVal(Get(before, request.id), request.id,
                                request.val, request.null), request.null))
    => (response.status \in 400..499 /\ data = before)

\* What C6 requires of a body: every field meets its constraint, name and
\* city non-empty.
MeetsStated(val) ==
  /\ val.name # ""
  /\ val.city # ""
  /\ 0 < val.age /\ val.age < 120
  /\ val.gender \in {"Male", "Female", "Other"}
  /\ val.height > 0
  /\ val.weight > 0

\* C6 as stated: the body of a create passes validation exactly when every
\* field meets its constraint, name and city being non-empty, and a
\* rejected body leaves the store as it was.
C6_NonEmptyNames ==
  request.op = "create" =>
    /\ (response.status # 422) <=> MeetsStated(request.val)
    /\ response.status = 422 => data = before

\* C6 as amended: the body of a create passes validation exactly when
\* 0 < age < 120, gender is Male, Female or Other, height > 0 and weight > 0,
\* whatever strings name and city are (the empty string included); a
\* rejected body is answered 422 and leaves the store as it was, an accepted
\* one creates the patient when its id is not yet a key.
C6_Validation ==
  request.op = "create" =>
    LET meets == /\ 0 < request.val.age /\ request.val.age < 120
                 /\ request.val.gender \in {"Male", "Female", "Other"}
                 /\ request.val.height > 0
                 /\ request.val.weight > 0
    IN  /\ (response.status # 422) <=> meets
        /\ response.status = 422 => data = before
        /\ (response.status = 201) <=> (meets /\ request.id \notin Keys(before))

C6_Witness ==
  /\ request.op = "create"
  /\ request.val.name = ""
  /\ request.val.age = 119
  /\ response.status = 201
  /\ request.id \in Keys(data)

\* C7: the bmi of a created Patient is weight/height^2 to the nearest
\* hundredth and its verdict is the class of that bmi by the half-open
\* thresholds: below 18.5 Underweight, from 18.5 below 25 Normal weight,
\* from 25 below 30 Overweight, from 30 Obese.
C7_BmiVerdict ==
  (request.op = "create" /\ response.status = 201) =>
    LET p == Get(data, request.id)
        h == request.val.height
        w == request.val.weight
    IN  /\ IsBmi(p.bmi, h, w)
        /\ IsVerdict(p.verdict, p.bmi)
        /\ (h = 100 /\ w = 1850) => (p.bmi = 1850 /\ p.verdict = "Normal weight")
        /\ (h = 100 /\ w = 1849) => (p.bmi = 1849 /\ p.verdict = "Underweight")
        /\ (h = 100 /\ w = 2500) => (p.bmi = 2500 /\ p.verdict = "Overweight")
        /\ (h = 100 /\ w = 3000) => (p.bmi = 3000 /\ p.verdict = "Obese")

C7_Witness ==
  /\ request.op = "create"
  /\ response.status = 201
  /\ Get(data, request.id).bmi = 1850
  /\ Get(data, request.id).verdict = "Normal weight"

\* Two write requests on different ids that both succeeded, both having
\* loaded before either saved, p saving first.
Raced(p, q) ==
  /\ p # q
  /\ pc[p] = "done" /\ pc[q] = "done"
  /\ job[p].ans.save /\ job[q].ans.save
  /\ job[p].req.id # job[q].req.id
  /\ job[p].loadAt < job[p].saveAt /\ job[p].loadAt < job[q].saveAt
  /\ job[q].loadAt < job[p].saveAt /\ job[q].loadAt < job[q].saveAt
  /\ job[p].saveAt < job[q].saveAt

\* C10: when two write requests on different ids both load before either
\* saves, both are answered with success and the store ends as the later
\* save wrote it: the earlier request's effect is gone (a created patient
\* is absent, a deleted patient is present again, an updated record is as
\* it was loaded).
C10_LostUpdate ==
  \A p, q \in Workers :
    Raced(p, q) =>
      /\ job[p].ans.status \in {200, 201}
      /\ job[q].ans.status \in {200, 201}
      /\ data = job[q].ans.data
      /\ job[p].req.op = "create" => job[p].req.id \notin Keys(data)
      /\ job[p].req.op \in {"delete", "update"} =>
           /\ job[p].req.id \in Keys(data)
           /\ Get(data, job[p].req.id) = Get(job[p].loaded, job[p].req.id)

C10_Witness ==
  \E p, q \in Workers :
    /\ Raced(p, q)
    /\ job[p].req.op = "create"
    /\ job[p].ans.status = 201
    /\ job[q].req.op = "delete"
    /\ job[q].ans.status = 200
    /\ data = <<>>

====
